---- MODULE Spec2Model ----
(***************************************************************************)
(* Dispatch engine of the hanu chat bot (main.go, listener.go).            *)
(*                                                                         *)
(* A text is a sequence of atoms: the command prefix, a mention of a       *)
(* user, a link in Slack markup, or a plain word.  The receive loop        *)
(* (Bot.Listen) decodes frames into its buffer, starts one task per        *)
(* decoded message (go b.process(msg)), and every task walks through       *)
(* Bot.process one shared-memory access at a time, so that registration    *)
(* calls and SetPrefix interleave with it as they do in the program.       *)
(*                                                                         *)
(* A run-time panic ends the task it happens in (pc = "panic"); the        *)
(* process-wide abort the Go runtime performs after it is not modelled.    *)
(*                                                                         *)
(* Spec, LoopSpec and HandlerSpec take each read of a registry as atomic;  *)
(* RaceSpec gives those reads the outcomes of the unsynchronised slice     *)
(* accesses they are.  BootSpec is New / Handshake on its own.             *)
(***************************************************************************)
EXTENDS Integers, Sequences, FiniteSets, TLC

\* ---------------------------------------------------------------- bounds
MaxFrames    == 2      \* frames that arrive on the socket
MaxCommands  == 2      \* entries of b.Commands
MaxListeners == 2      \* entries of b.Listeners
MaxInFlight  == 1      \* unfinished tasks when the peer sends a frame (Spec)

\* ------------------------------------------------------------ input sets
BotID    == "U1"       \* b.ID, assigned by Handshake
Sender   == "U2"       \* the user field of inbound frames
Prefixes == {"!", "?"} \* values given to SetPrefix
Absent   == <<"absent">> \* a text field the frame does not carry
NoChannel == ""

\* Command patterns given to Command; "{name}" is a placeholder.
CmdPatterns == { <<"hello", "{name}">> }
\* Command objects given to RegisterCommand.
CommandObjs == { [pattern |-> <<"hello", "bob">>, description |-> "greets"] }

\* Listener regex strings: two literals and one that does not compile.
RegexStrings == {"!", "hello", "("}

\* A frame: the outcome of decoding it and the fields it carries.
Frame(err, text, channel) ==
  [err |-> err, carries |-> {"text"} \ {"text" : x \in {text} \cap {Absent}},
   text |-> IF text = Absent THEN <<>> ELSE text, channel |-> channel]

\* Frames on the wire.  err = "nil": a JSON object, text possibly absent;
\* "syntax": not JSON, nothing is decoded; "type": a field of the wrong
\* type after the text field, the text is stored and an error returned.
Frames ==
  { Frame("nil", <<"!", "hello", "bob">>, "C1"),
    Frame("nil", <<"hello", "amy">>, "C1"),
    Frame("nil", <<"hello", "amy">>, "D1"),
    Frame("nil", <<"@U1", "!", "help">>, "C1"),
    Frame("nil", <<"@U1", "hello", "<u|bob>">>, "C1"),
    Frame("nil", <<"help">>, "C1"),
    Frame("nil", <<"help">>, "D1"),
    Frame("nil", Absent, "C1"),
    Frame("syntax", Absent, NoChannel),
    Frame("type", <<"!", "hello", "bob">>, NoChannel) }

\* ------------------------------------------------------------- messages
EmptyMsg == [Message |-> <<>>, text |-> <<>>, channel |-> "", user |-> ""]

\* websocket.JSON.Receive(b.Socket, &msg): the fields the frame carries
\* overwrite the buffer, the others keep the buffer's value.
Decode(buf, fr) ==
  IF fr.err = "syntax" THEN buf
  ELSE [Message |-> IF "text" \in fr.carries THEN fr.text ELSE buf.Message,
        text    |-> IF "text" \in fr.carries THEN fr.text ELSE buf.text,
        channel |-> IF fr.channel = NoChannel THEN buf.channel ELSE fr.channel,
        user    |-> IF fr.err = "nil" THEN Sender ELSE buf.user]

Mention(id) == IF id = "U1" THEN "@U1" ELSE "@other"
IsDirectMessage(m) == m.channel = "D1"
HasPrefix(s, p) == Len(s) > 0 /\ s[1] = p
Contains(s, a) == \E k \in 1..Len(s) : s[k] = a
IndexOf(s, a) == CHOOSE k \in 1..Len(s) : s[k] = a /\ \A j \in 1..(k - 1) : s[j] # a
RemoveAt(s, k) == SubSeq(s, 1, k - 1) \o SubSeq(s, k + 1, Len(s))

IsBotMessage(m, prefix, id) ==
  HasPrefix(m.text, prefix) \/ Contains(m.text, Mention(id)) \/ IsDirectMessage(m)

StripMention(m, id) ==
  IF Contains(m.text, Mention(id))
  THEN [m EXCEPT !.text = RemoveAt(m.text, IndexOf(m.text, Mention(id)))]
  ELSE m

Unlink(a) == IF a = "<u|bob>" THEN "bob" ELSE a
StripLinkMarkup(m) == [m EXCEPT !.text = [k \in 1..Len(m.text) |-> Unlink(m.text[k])]]

StripPrefix(m, prefix) ==
  IF HasPrefix(m.text, prefix) THEN [m EXCEPT !.text = Tail(m.text)] ELSE m

IsHelpRequest(m) == m.text = <<"help">>

\* ------------------------------------------------------ pattern matching
IsParam(tok) == tok \in {"{name}"}

\* cmd.Get().Match(text): anchored at both ends, a placeholder takes one
\* word; err is set when the text does not match.
Match(pattern, text) ==
  LET ok == /\ Len(pattern) = Len(text)
            /\ \A k \in 1..Len(pattern) : IsParam(pattern[k]) \/ pattern[k] = text[k]
  IN [err    |-> ~ok,
      params |-> IF ok THEN {<<pattern[k], text[k]>> : k \in {j \in 1..Len(pattern) : IsParam(pattern[j])}}
                 ELSE {}]

\* regexp.Compile: the compiled form, or nil.
Nil == [valid |-> FALSE, lit |-> ""]
Compile(src) ==
  CASE src = "!"     -> [valid |-> TRUE, lit |-> "!"]
    [] src = "hello" -> [valid |-> TRUE, lit |-> "hello"]
    [] OTHER         -> Nil

\* r.MatchString(s) of a compiled literal: it occurs somewhere in s.
MatchString(r, s) == Contains(s, r.lit)

\* ---------------------------------------------------------------- state
VARIABLES
  Commands,    \* b.Commands
  Listeners,   \* b.Listeners
  Prefix,      \* b.Prefix
  closed,      \* the connection has terminated
  frames,      \* the frames that arrived so far, in order
  msg,         \* Listen's receive buffer
  listen,      \* Listen's position: "receive" or "returned"
  spin,        \* parity of the number of failed receives after the end of stream
  tasks,       \* one record per go b.process(msg)
  outbox,      \* what was sent on the socket
  handlers,    \* the handler goroutines started and not yet returned
  boot         \* New / Handshake: position, inputs and result

vars == <<Commands, Listeners, Prefix, closed, frames, msg, listen, spin, tasks, outbox, handlers, boot>>

Final == {"done", "panic"}

NewTask(f, m) ==
  [frame |-> f, raw |-> m.Message, msg |-> m, pc |-> "process", i |-> 0, c |-> FALSE,
   bot |-> "unknown", help |-> FALSE,
   cmdRuns |-> 0, lstRuns |-> 0, cmdSeen |-> 0, lstSeen |-> 0,
   cmdLog |-> <<>>, lstLog |-> <<>>, sent |-> 0,
   cret |-> "none", lret |-> "none",
   rcCmd |-> 0, rcLst |-> 0,          \* appends not ordered before the task's reads
   cmdBegin |-> 0, lstBegin |-> 0,    \* registry length when the pass began
   wild |-> FALSE,                    \* the task read outside a backing array
   steps |-> <<>>,                    \* the strip methods called on the message, in order
   byPrefix |-> "none",               \* the b.Prefix that line 96 found at the head of the text
   stripPrefix |-> "none"]            \* the b.Prefix line 102 passed to StripPrefix for it

\* ------------------------------------------------------- New, Handshake
Tokens   == {"xoxb-1", "xoxb-2"}
StatusOK == 200
Statuses == {StatusOK, 401}
NoBot    == "nil"      \* the *Bot that Handshake returns on failure
NoError  == "nil"

\* Response bodies of rtm.start: one that is not JSON, and JSON objects
\* with every combination of the fields of handshakeResponse.
NotJSON == [json |-> FALSE, ok |-> FALSE, error |-> "", url |-> "", id |-> ""]
Bodies ==
  {NotJSON} \cup
  [json : {TRUE}, ok : BOOLEAN, error : {"", "invalid_auth", "account_inactive"},
   url : {"wss://a", "wss://b"}, id : {"U1", "U7"}]

\* New(token): the bot value, before bot.Handshake() runs.
NewBot(token) ==
  [pc |-> "get", token |-> token, status |-> 0, body |-> NotJSON,
   id |-> "", socket |-> "", dials |-> 0, ret |-> NoBot, err |-> NoError]

\* The bot the dispatch specifications start from: Handshake returned b, nil.
Booted ==
  [NewBot("xoxb-1") EXCEPT !.pc = "returned", !.status = StatusOK,
     !.body = [json |-> TRUE, ok |-> TRUE, error |-> "", url |-> "wss://a", id |-> BotID],
     !.id = BotID, !.socket = "wss://a", !.dials = 1, !.ret = "bot"]

Fail(b, e) == [b EXCEPT !.pc = "returned", !.ret = NoBot, !.err = e]

\* if !response.Ok
SlackRefused_ignored(response) == FALSE
SlackRefused(response) == ~response.ok

\* http.Get and the check of the status code.
HttpGet ==
  /\ boot.pc = "get"
  /\ \/ boot' = Fail(boot, "Failed to connect to Slack RTM API")
     \/ \E st \in Statuses :
          boot' = IF st # StatusOK
                  THEN Fail([boot EXCEPT !.status = st], "Failed with HTTP Code: 401")
                  ELSE [boot EXCEPT !.status = st, !.pc = "read"]
  /\ UNCHANGED <<Commands, Listeners, Prefix, closed, frames, msg, listen, spin, tasks,
                 outbox, handlers>>

\* ioutil.ReadAll(res.Body)
ReadBody ==
  /\ boot.pc = "read"
  /\ \/ boot' = Fail(boot, "Failed to read body from response")
     \/ \E bd \in Bodies : boot' = [boot EXCEPT !.body = bd, !.pc = "parse"]
  /\ UNCHANGED <<Commands, Listeners, Prefix, closed, frames, msg, listen, spin, tasks,
                 outbox, handlers>>

\* json.Unmarshal, the check of response.Ok and the assignment of b.ID.
ParseResponse ==
  /\ boot.pc = "parse"
  /\ boot' = IF ~boot.body.json THEN Fail(boot, "Failed to unmarshal JSON")
             ELSE IF SlackRefused(boot.body) THEN Fail(boot, boot.body.error)
             ELSE [boot EXCEPT !.id = boot.body.id, !.pc = "dial"]
  /\ UNCHANGED <<Commands, Listeners, Prefix, closed, frames, msg, listen, spin, tasks,
                 outbox, handlers>>

\* websocket.Dial(response.URL, ...) and the return.
Dial ==
  /\ boot.pc = "dial"
  /\ \/ boot' = Fail([boot EXCEPT !.dials = @ + 1], "Failed to connect to Websocket")
     \/ boot' = [boot EXCEPT !.dials = @ + 1, !.socket = boot.body.url,
                             !.pc = "returned", !.ret = "bot"]
  /\ UNCHANGED <<Commands, Listeners, Prefix, closed, frames, msg, listen, spin, tasks,
                 outbox, handlers>>

\* New(token) after a successful Handshake.
Init ==
  /\ Commands = <<>>
  /\ Listeners = <<>>
  /\ Prefix = "!"
  /\ closed = FALSE
  /\ frames = <<>>
  /\ msg = EmptyMsg
  /\ listen = "receive"
  /\ spin = 0
  /\ tasks = <<>>
  /\ outbox = <<>>
  /\ handlers = {}
  /\ boot = Booted

\* ---------------------------------------------------------- registration
NewCommand(cmd, description) == [pattern |-> cmd, description |-> description]
NewListener(regex) == [regex |-> regex]

Command_prepend ==
  /\ Len(Commands) < MaxCommands
  /\ \E cmd \in CmdPatterns : Commands' = <<NewCommand(cmd, "")>> \o Commands
  /\ UNCHANGED <<Listeners, Prefix, closed, frames, msg, listen, spin, tasks, outbox, handlers, boot>>

Command ==
  /\ Len(Commands) < MaxCommands
  /\ \E cmd \in CmdPatterns : Commands' = Append(Commands, NewCommand(cmd, ""))
  /\ UNCHANGED <<Listeners, Prefix, closed, frames, msg, listen, spin, tasks, outbox, handlers, boot>>

RegisterCommand ==
  /\ Len(Commands) < MaxCommands
  /\ \E cmd \in CommandObjs : Commands' = Append(Commands, cmd)
  /\ UNCHANGED <<Listeners, Prefix, closed, frames, msg, listen, spin, tasks, outbox, handlers, boot>>

Hear ==
  /\ Len(Listeners) < MaxListeners
  /\ \E regex \in RegexStrings : Listeners' = Append(Listeners, NewListener(regex))
  /\ UNCHANGED <<Commands, Prefix, closed, frames, msg, listen, spin, tasks, outbox, handlers, boot>>

RegisterListener ==
  /\ Len(Listeners) < MaxListeners
  /\ \E lst \in {NewListener(r) : r \in RegexStrings} : Listeners' = Append(Listeners, lst)
  /\ UNCHANGED <<Commands, Prefix, closed, frames, msg, listen, spin, tasks, outbox, handlers, boot>>

SetPrefix ==
  /\ \E prefix \in Prefixes : Prefix' = prefix
  /\ UNCHANGED <<Commands, Listeners, closed, frames, msg, listen, spin, tasks, outbox, handlers, boot>>

\* ------------------------------------------------------------ Bot.Listen
\* Line 186: the message is processed when Receive returned no error.
ReceiveOK_ignore(err) == TRUE
ReceiveOK(err) == err = "nil"

\* Line 185: the loop takes its next turn whatever the tasks it started do.
ListenReady_waits == listen = "receive" /\ \A k \in 1..Len(tasks) : tasks[k].pc \in {"done", "panic"}
ListenReady == listen = "receive"

\* Line 187, go b.process(msg): the argument is evaluated at the go
\* statement and the task gets its own copy, so what the loop writes to its
\* buffer afterwards (the value buf) leaves the tasks ts as they are.
ByValue_shared(ts, buf) ==
  [k \in DOMAIN ts |-> IF ts[k].pc \in Final THEN ts[k] ELSE [ts[k] EXCEPT !.msg = buf]]
ByValue(ts, buf) == ts

\* One turn of the loop on an open connection: a frame arrives and is
\* decoded into the buffer; on success a task is started with a copy of
\* the buffer and the buffer is reset.
Receive ==
  /\ ListenReady
  /\ ~closed
  /\ Len(frames) < MaxFrames
  /\ \E fr \in Frames :
       LET m == Decode(msg, fr) IN
       /\ frames' = Append(frames, fr)
       /\ IF ReceiveOK(fr.err)
          THEN tasks' = Append(ByValue(tasks, EmptyMsg), NewTask(Len(frames) + 1, m))
               /\ msg' = EmptyMsg
          ELSE tasks' = ByValue(tasks, m)
               /\ msg' = m
  /\ UNCHANGED <<Commands, Listeners, Prefix, closed, listen, spin, outbox, handlers, boot>>

\* The peer ends the connection.
Close ==
  /\ ~closed
  /\ closed' = TRUE
  /\ UNCHANGED <<Commands, Listeners, Prefix, frames, msg, listen, spin, tasks, outbox, handlers, boot>>

\* One turn of the loop on a terminated connection: Receive returns the
\* end-of-stream error, nothing is started, the loop takes its next turn.
ReceiveEOF ==
  /\ ListenReady
  /\ closed
  /\ spin' = 1 - spin
  /\ UNCHANGED <<Commands, Listeners, Prefix, closed, frames, msg, listen, tasks, outbox, handlers, boot>>

\* ----------------------------------------------------------- Bot.process
\* Line 96: the branch on IsBotMessage.
ProcessBranch_always(bot) == "strip"
ProcessBranch(bot) == IF bot THEN "strip" ELSE "searchListener"

\* Lines 106-108: after sendHelp, return.
AfterHelp_fallthrough == "searchListener"
AfterHelp == "done"

\* Lines 110-112: return when searchCommand reported a match.
AfterCommand_fallthrough(c) == "searchListener"
AfterCommand_return(c) == "done"
AfterCommand(c) == IF c THEN "done" ELSE "searchListener"

\* Line 147: the text the listener's expression is run on.
ListenerSubject_text(m) == m.text
ListenerSubject(m) == m.Message

\* Lines 125 and 142: the loop's post statement.
CmdAdvance_break(i, matched) == IF matched THEN MaxCommands + 1 ELSE i + 1
CmdAdvance(i, matched) == i + 1
LstAdvance(i, matched) == i + 1

Enter(t, pc) ==
  IF pc = "searchListener"
  THEN [t EXCEPT !.pc = pc, !.i = 1, !.c = FALSE, !.lstRuns = @ + 1]
  ELSE IF pc = "searchCommand"
  THEN [t EXCEPT !.pc = pc, !.i = 1, !.c = FALSE, !.cmdRuns = @ + 1]
  ELSE [t EXCEPT !.pc = pc]

\* Line 96.
Process(k) ==
  /\ tasks[k].pc = "process"
  /\ LET bot == IsBotMessage(tasks[k].msg, Prefix, BotID) IN
       tasks' = [tasks EXCEPT ![k] =
                   Enter([@ EXCEPT !.bot = IF bot THEN "yes" ELSE "no",
                                   !.byPrefix = IF HasPrefix(tasks[k].msg.text, Prefix) THEN Prefix ELSE "none"],
                         ProcessBranch(bot))]
  /\ UNCHANGED <<Commands, Listeners, Prefix, closed, frames, msg, listen, spin, outbox, handlers, boot>>

\* Lines 98, 100 and 102: the strip calls in program order.
StripSteps_prefixFirst == <<"StripPrefix", "StripMention", "StripLinkMarkup">>
StripSteps == <<"StripMention", "StripLinkMarkup", "StripPrefix">>

ApplyStep(step, m, prefix) ==
  CASE step = "StripMention"    -> StripMention(m, BotID)
    [] step = "StripLinkMarkup" -> StripLinkMarkup(m)
    [] step = "StripPrefix"     -> StripPrefix(m, prefix)

RECURSIVE Normalise(_, _, _)
Normalise(steps, m, prefix) ==
  IF steps = <<>> THEN m
  ELSE Normalise(Tail(steps), ApplyStep(Head(steps), m, prefix), prefix)

\* Lines 98-106.
Strip(k) ==
  /\ tasks[k].pc = "strip"
  /\ LET m == Normalise(StripSteps, tasks[k].msg, Prefix) IN
       tasks' = [tasks EXCEPT ![k] =
                   Enter([@ EXCEPT !.msg = m, !.help = IsHelpRequest(m), !.steps = StripSteps,
                                   !.stripPrefix = IF tasks[k].byPrefix = "none" THEN "none" ELSE Prefix],
                         IF IsHelpRequest(m) THEN "sendHelp" ELSE "searchCommand")]
  /\ UNCHANGED <<Commands, Listeners, Prefix, closed, frames, msg, listen, spin, outbox, handlers, boot>>

\* Lines 162-169: the line of one command, the pattern in backquotes and
\* the description after the separator when there is one.
HelpLine_always(cmd) == [code |-> cmd.pattern, rest |-> <<" *-* ", cmd.description>>]
HelpLine(cmd) ==
  [code |-> cmd.pattern,
   rest |-> IF cmd.description # "" THEN <<" *-* ", cmd.description>> ELSE <<>>]

\* Bot.sendHelp, lines 160-177: the text of the reply.
HelpText(m) ==
  [mention |-> IF IsDirectMessage(m) THEN "" ELSE m.user,
   lines   |-> [j \in 1..Len(Commands) |-> HelpLine(Commands[j])]]

\* Lines 107-108.
SendHelp(k) ==
  /\ tasks[k].pc = "sendHelp"
  /\ outbox' = Append(outbox, [task |-> k, channel |-> tasks[k].msg.channel,
                               user |-> tasks[k].msg.user, text |-> HelpText(tasks[k].msg)])
  /\ tasks' = [tasks EXCEPT ![k] = Enter([@ EXCEPT !.sent = @ + 1], AfterHelp)]
  /\ UNCHANGED <<Commands, Listeners, Prefix, closed, frames, msg, listen, spin, handlers, boot>>

\* Listener.Handle, go c.handler(conv): the handler is started as a
\* goroutine of its own, and Handle returns to the pass without waiting.
\* Command.Handle does the same.  A started handler is in `handlers` until
\* it returns.
ListenerWaits_sync(k) == \E h \in handlers : h.task = k /\ h.kind = "listener"
ListenerWaits(k) == FALSE
CommandWaits(k) == FALSE

\* The handlers the step of task k has started: one per entry the step
\* added to the task's logs.
Handle(k) ==
  handlers' = handlers
    \cup {[task |-> k, kind |-> "command", idx |-> tasks[k].i] :
            x \in {y \in {1} : Len(tasks'[k].cmdLog) > Len(tasks[k].cmdLog)}}
    \cup {[task |-> k, kind |-> "listener", idx |-> tasks[k].i] :
            x \in {y \in {1} : Len(tasks'[k].lstLog) > Len(tasks[k].lstLog)}}

\* A handler returns.
HandlerReturn ==
  /\ \E h \in handlers : handlers' = handlers \ {h}
  /\ UNCHANGED <<Commands, Listeners, Prefix, closed, frames, msg, listen, spin, tasks, outbox, boot>>

\* Bot.searchCommand, one turn of the loop of lines 125-133, or the return
\* of line 135 and what process does with it (lines 110-117).
SearchCommand(k) ==
  /\ tasks[k].pc = "searchCommand"
  /\ ~CommandWaits(k)
  /\ LET t == tasks[k] IN
       IF t.i > Len(Commands)
       THEN tasks' = [tasks EXCEPT ![k] =
                           Enter([@ EXCEPT !.cret = IF t.c THEN "true" ELSE "false",
                                           !.cmdSeen = Len(Commands)],
                                 AfterCommand(t.c))]
       ELSE LET match == Match(Commands[t.i].pattern, t.msg.text) IN
            IF ~match.err
            THEN tasks' = [tasks EXCEPT ![k] =
                                [@ EXCEPT !.cmdLog = Append(@, [idx |-> t.i, match |-> match.params]),
                                          !.c = TRUE,
                                          !.i = CmdAdvance(t.i, TRUE)]]
            ELSE tasks' = [tasks EXCEPT ![k] = [@ EXCEPT !.i = CmdAdvance(t.i, FALSE)]]
  /\ Handle(k)
  /\ UNCHANGED <<Commands, Listeners, Prefix, closed, frames, msg, listen, spin, outbox, boot>>

\* Bot.searchListener, one turn of the loop of lines 142-152, or the return
\* of line 154.  MatchString on the nil result of a failed Compile panics.
SearchListener(k) ==
  /\ tasks[k].pc = "searchListener"
  /\ ~ListenerWaits(k)
  /\ LET t == tasks[k] IN
       IF t.i > Len(Listeners)
       THEN tasks' = [tasks EXCEPT ![k] =
                           [@ EXCEPT !.lret = IF t.c THEN "true" ELSE "false",
                                     !.lstSeen = Len(Listeners),
                                     !.pc = "done"]]
       ELSE LET r == Compile(Listeners[t.i].regex) IN
            IF ~r.valid
            THEN tasks' = [tasks EXCEPT ![k] = [@ EXCEPT !.pc = "panic"]]
            ELSE IF MatchString(r, ListenerSubject(t.msg))
            THEN tasks' = [tasks EXCEPT ![k] =
                                [@ EXCEPT !.lstLog = Append(@, [idx |-> t.i, msg |-> t.msg]),
                                          !.c = TRUE,
                                          !.i = LstAdvance(t.i, TRUE)]]
            ELSE tasks' = [tasks EXCEPT ![k] = [@ EXCEPT !.i = LstAdvance(t.i, FALSE)]]
  /\ Handle(k)
  /\ UNCHANGED <<Commands, Listeners, Prefix, closed, frames, msg, listen, spin, outbox, boot>>

ListenStep == Receive \/ ReceiveEOF

\* The pace of the peer under Spec: a frame is sent when fewer than
\* MaxInFlight of the messages sent before are still being processed.
\* The receive loop under any pace, and the end of the connection, are
\* LoopSpec's.
Paced == Cardinality({k \in 1..Len(tasks) : tasks[k].pc \notin Final}) < MaxInFlight

Next ==
  \/ Command
  \/ RegisterCommand
  \/ Hear
  \/ RegisterListener
  \/ SetPrefix
  \/ (Paced /\ Receive)
  \/ \E k \in 1..Len(tasks) : Process(k)
  \/ \E k \in 1..Len(tasks) : Strip(k)
  \/ \E k \in 1..Len(tasks) : SendHelp(k)
  \/ \E k \in 1..Len(tasks) : SearchCommand(k)
  \/ \E k \in 1..Len(tasks) : SearchListener(k)

Spec == Init /\ [][Next]_vars

\* The receive loop with a registry set up before Listen is called, the
\* peer sending at any pace.
LoopInit ==
  /\ Commands = <<NewCommand(<<"hello", "{name}">>, "")>>
  /\ Listeners = <<NewListener("!")>>
  /\ Prefix = "!"
  /\ closed = FALSE
  /\ frames = <<>>
  /\ msg = EmptyMsg
  /\ listen = "receive"
  /\ spin = 0
  /\ tasks = <<>>
  /\ outbox = <<>>
  /\ handlers = {}
  /\ boot = Booted

LoopNext ==
  \/ Receive
  \/ Close
  \/ ReceiveEOF
  \/ \E k \in 1..Len(tasks) : Process(k)
  \/ \E k \in 1..Len(tasks) : Strip(k)
  \/ \E k \in 1..Len(tasks) : SendHelp(k)
  \/ \E k \in 1..Len(tasks) : SearchCommand(k)
  \/ \E k \in 1..Len(tasks) : SearchListener(k)

LoopSpec == LoopInit /\ [][LoopNext]_vars

\* The scheduler runs the goroutine of Listen: its loop keeps taking turns.
FairLoopSpec == LoopSpec /\ WF_vars(ListenStep)

\* ------------------------------------------- unsynchronised registration
\* b.Commands and b.Listeners are plain slices: an append made by another
\* goroutine while a task is running is not ordered before the task's
\* reads.  The task's go statement orders only the appends made before it.
Overlapped(ts, field) ==
  [k \in DOMAIN ts |-> IF ts[k].pc \in Final THEN ts[k] ELSE [ts[k] EXCEPT ![field] = @ + 1]]

\* The lengths a task's read of len(registry) can observe: any of the
\* slice headers written since the task was started.
SeenLen(reg, rc) == (Len(reg) - rc)..Len(reg)

\* registry[i] reads the slice header word by word.  For an entry appended
\* since the task was started it can pair the new length with the old array
\* pointer and read past the old backing array.
Published(i, reg, rc) == i <= Len(reg) - rc

\* Command or RegisterCommand called while tasks run.
RaceCommand ==
  /\ Len(Commands) < MaxCommands
  /\ \E cmd \in {NewCommand(p, "") : p \in CmdPatterns} \cup CommandObjs :
       Commands' = Append(Commands, cmd)
  /\ tasks' = Overlapped(tasks, "rcCmd")
  /\ UNCHANGED <<Listeners, Prefix, closed, frames, msg, listen, spin, outbox, handlers, boot>>

\* Hear or RegisterListener called while tasks run.
RaceHear ==
  /\ Len(Listeners) < MaxListeners
  /\ \E regex \in RegexStrings : Listeners' = Append(Listeners, NewListener(regex))
  /\ tasks' = Overlapped(tasks, "rcLst")
  /\ UNCHANGED <<Commands, Prefix, closed, frames, msg, listen, spin, outbox, handlers, boot>>

\* One turn of searchCommand's loop with the reads of lines 125 and 126 as
\* the memory model allows them.
SearchCommandRace(k) ==
  /\ tasks[k].pc = "searchCommand"
  /\ ~CommandWaits(k)
  /\ LET t == [tasks[k] EXCEPT !.cmdBegin = IF tasks[k].i = 1 THEN Len(Commands) ELSE @] IN
     \E n \in SeenLen(Commands, t.rcCmd) :
       IF t.i > n
       THEN tasks' = [tasks EXCEPT ![k] =
                           Enter([t EXCEPT !.cret = IF t.c THEN "true" ELSE "false",
                                           !.cmdSeen = n],
                                 AfterCommand(t.c))]
       ELSE \/ /\ ~Published(t.i, Commands, t.rcCmd)
               /\ tasks' = [tasks EXCEPT ![k] = [t EXCEPT !.wild = TRUE, !.pc = "panic"]]
            \/ LET match == Match(Commands[t.i].pattern, t.msg.text) IN
               IF ~match.err
               THEN tasks' = [tasks EXCEPT ![k] =
                                   [t EXCEPT !.cmdLog = Append(@, [idx |-> t.i, match |-> match.params]),
                                             !.c = TRUE,
                                             !.i = CmdAdvance(t.i, TRUE)]]
               ELSE tasks' = [tasks EXCEPT ![k] = [t EXCEPT !.i = CmdAdvance(t.i, FALSE)]]
  /\ Handle(k)
  /\ UNCHANGED <<Commands, Listeners, Prefix, closed, frames, msg, listen, spin, outbox, boot>>

\* One turn of searchListener's loop, lines 142 and 143 likewise.
SearchListenerRace(k) ==
  /\ tasks[k].pc = "searchListener"
  /\ ~ListenerWaits(k)
  /\ LET t == [tasks[k] EXCEPT !.lstBegin = IF tasks[k].i = 1 THEN Len(Listeners) ELSE @] IN
     \E n \in SeenLen(Listeners, t.rcLst) :
       IF t.i > n
       THEN tasks' = [tasks EXCEPT ![k] =
                           [t EXCEPT !.lret = IF t.c THEN "true" ELSE "false",
                                     !.lstSeen = n,
                                     !.pc = "done"]]
       ELSE \/ /\ ~Published(t.i, Listeners, t.rcLst)
               /\ tasks' = [tasks EXCEPT ![k] = [t EXCEPT !.wild = TRUE, !.pc = "panic"]]
            \/ LET r == Compile(Listeners[t.i].regex) IN
               IF ~r.valid
               THEN tasks' = [tasks EXCEPT ![k] = [t EXCEPT !.pc = "panic"]]
               ELSE IF MatchString(r, ListenerSubject(t.msg))
               THEN tasks' = [tasks EXCEPT ![k] =
                                   [t EXCEPT !.lstLog = Append(@, [idx |-> t.i, msg |-> t.msg]),
                                             !.c = TRUE,
                                             !.i = LstAdvance(t.i, TRUE)]]
               ELSE tasks' = [tasks EXCEPT ![k] = [t EXCEPT !.i = LstAdvance(t.i, FALSE)]]
  /\ Handle(k)
  /\ UNCHANGED <<Commands, Listeners, Prefix, closed, frames, msg, listen, spin, outbox, boot>>

\* Registration from another goroutine while Listen runs, the registry
\* reads of the passes taken as the unsynchronised reads they are.
RaceNext ==
  \/ RaceCommand
  \/ RaceHear
  \/ (Paced /\ Receive)
  \/ \E k \in 1..Len(tasks) : Process(k)
  \/ \E k \in 1..Len(tasks) : Strip(k)
  \/ \E k \in 1..Len(tasks) : SendHelp(k)
  \/ \E k \in 1..Len(tasks) : SearchCommandRace(k)
  \/ \E k \in 1..Len(tasks) : SearchListenerRace(k)

RaceSpec == LoopInit /\ [][RaceNext]_vars

\* Handlers that take their time: two commands and two listeners are
\* registered before Listen is called, the peer sends at any pace, and a
\* started handler returns at any later moment or never.
HandlerInit ==
  /\ Commands = <<NewCommand(<<"hello", "{name}">>, ""), NewCommand(<<"hello", "bob">>, "greets")>>
  /\ Listeners = <<NewListener("hello"), NewListener("hello")>>
  /\ Prefix = "!"
  /\ closed = FALSE
  /\ frames = <<>>
  /\ msg = EmptyMsg
  /\ listen = "receive"
  /\ spin = 0
  /\ tasks = <<>>
  /\ outbox = <<>>
  /\ handlers = {}
  /\ boot = Booted

HandlerNext ==
  \/ Receive
  \/ HandlerReturn
  \/ \E k \in 1..Len(tasks) : Process(k)
  \/ \E k \in 1..Len(tasks) : Strip(k)
  \/ \E k \in 1..Len(tasks) : SendHelp(k)
  \/ \E k \in 1..Len(tasks) : SearchCommand(k)
  \/ \E k \in 1..Len(tasks) : SearchListener(k)

HandlerSpec == HandlerInit /\ [][HandlerNext]_vars

\* New(token) on its own: the bootstrap, before any registration or frame.
BootInit ==
  /\ Commands = <<>>
  /\ Listeners = <<>>
  /\ Prefix = "!"
  /\ closed = FALSE
  /\ frames = <<>>
  /\ msg = EmptyMsg
  /\ listen = "receive"
  /\ spin = 0
  /\ tasks = <<>>
  /\ outbox = <<>>
  /\ handlers = {}
  /\ \E token \in Tokens : boot = NewBot(token)

BootNext == HttpGet \/ ReadBody \/ ParseResponse \/ Dial

BootSpec == BootInit /\ [][BootNext]_vars

\* =================================================================
\* Properties
\* =================================================================
TaskIds == 1..Len(tasks)

\* The command handlers one pass over the first n commands has to schedule
\* for a text, in registration order, each with its own match result.
RECURSIVE CmdMatches(_, _)
CmdMatches(n, text) ==
  IF n = 0 THEN <<>>
  ELSE LET m == Match(Commands[n].pattern, text) IN
       IF m.err THEN CmdMatches(n - 1, text)
       ELSE Append(CmdMatches(n - 1, text), [idx |-> n, match |-> m.params])

\* Listener j's expression compiles and matches the text s.
LstMatches(j, s) ==
  Compile(Listeners[j].regex).valid /\ MatchString(Compile(Listeners[j].regex), s)

\* The handler of listener j was started for task t.
LstFired(t, j) == \E e \in 1..Len(t.lstLog) : t.lstLog[e].idx = j

\* How often the handler of listener j was started for task t.
LstCount(t, j) == Cardinality({e \in 1..Len(t.lstLog) : t.lstLog[e].idx = j})

\* The listeners the listener pass of task t has evaluated so far.
LstEvaluated(t) ==
  IF t.pc = "done" /\ t.lstRuns > 0 THEN t.lstSeen
  ELSE IF t.pc \in {"searchListener", "panic"} THEN t.i - 1
  ELSE 0

Replies(k) == {o \in 1..Len(outbox) : outbox[o].task = k}

\* C1: one run of searchCommand schedules, in registration order and
\* without stopping at the first match, exactly the commands whose pattern
\* matches the derived text, each once and with its own match result, and
\* returns true iff at least one matched.
C1_CommandPass ==
  \A k \in TaskIds :
    LET t == tasks[k] IN
    /\ t.pc = "searchCommand" =>
         /\ t.i - 1 <= Len(Commands)
         /\ t.cmdLog = CmdMatches(t.i - 1, t.msg.text)
         /\ t.c = (Len(t.cmdLog) > 0)
    /\ t.cret # "none" =>
         /\ t.cmdRuns = 1
         /\ t.cmdLog = CmdMatches(t.cmdSeen, t.msg.text)
         /\ (t.cret = "true") = (Len(t.cmdLog) > 0)
    /\ t.cmdRuns = 0 => t.cmdLog = <<>>

\* A pass over two commands that both match "hello bob", with different
\* match results.
C1_Witness ==
  \E k \in TaskIds :
    /\ tasks[k].cret = "true"
    /\ tasks[k].cmdSeen = 2
    /\ tasks[k].cmdLog = << [idx |-> 1, match |-> {<<"{name}", "bob">>}],
                            [idx |-> 2, match |-> {}] >>

\* C2: a bot-addressed message that is no help request and for which the
\* command pass matched is done after the command pass: the listener pass
\* is not run and no listener handler is started for it.
C2_CommandMatchSkipsListeners ==
  \A k \in TaskIds :
    LET t == tasks[k] IN
    (t.bot = "yes" /\ ~t.help /\ t.cret = "true") =>
      (t.pc = "done" /\ t.lstRuns = 0 /\ t.lstLog = <<>>)

\* Such a message, while a registered listener matches its raw text.
C2_Witness ==
  \E k \in TaskIds :
    /\ tasks[k].bot = "yes" /\ ~tasks[k].help /\ tasks[k].cret = "true"
    /\ tasks[k].pc = "done"
    /\ \E j \in 1..Len(Listeners) : LstMatches(j, tasks[k].raw)

\* C3: a bot-addressed message that is a help request after stripping gets
\* exactly one help reply and is done: neither pass runs, no handler is
\* started.  Help replies are sent for help requests only.
C3_HelpTerminates ==
  \A k \in TaskIds :
    LET t == tasks[k] IN
    /\ t.help =>
         /\ t.bot = "yes"
         /\ t.cmdRuns = 0 /\ t.lstRuns = 0 /\ t.cmdLog = <<>> /\ t.lstLog = <<>>
         /\ \/ t.pc = "sendHelp" /\ t.sent = 0 /\ Cardinality(Replies(k)) = 0
            \/ t.pc = "done" /\ t.sent = 1 /\ Cardinality(Replies(k)) = 1
    /\ ~t.help => (t.sent = 0 /\ Replies(k) = {})

\* A help request that is done, with a command registered and a listener
\* that matches its raw text.
C3_Witness ==
  \E k \in TaskIds :
    /\ tasks[k].help /\ tasks[k].pc = "done"
    /\ Len(Commands) > 0
    /\ \E j \in 1..Len(Listeners) : LstMatches(j, tasks[k].raw)

C5_NotAddressed ==
  \A k \in TaskIds :
    LET t == tasks[k] IN
    t.bot = "no" =>
      /\ t.msg.text = t.raw
      /\ ~t.help
      /\ t.cmdRuns = 0 /\ t.cmdLog = <<>> /\ t.cret = "none"
      /\ t.sent = 0 /\ Replies(k) = {}
      /\ t.lstRuns = 1
      /\ t.pc \in {"searchListener", "done", "panic"}

\* Two messages that are not bot-addressed and done: one whose text a
\* registered command matches, one whose text is the help keyword.
C5_Witness ==
  \E k1, k2 \in TaskIds :
    /\ tasks[k1].bot = "no" /\ tasks[k1].pc = "done"
    /\ \E j \in 1..Len(Commands) : ~Match(Commands[j].pattern, tasks[k1].raw).err
    /\ tasks[k2].bot = "no" /\ tasks[k2].pc = "done"
    /\ tasks[k2].raw = <<"help">>

\* C6: the listener pass decides on the raw text: of the listeners it has
\* evaluated, the ones started are exactly those whose expression matches
\* the text as received, also after the derived text was stripped.
C6_ListenersSeeRawText ==
  \A k \in TaskIds :
    LET t == tasks[k] IN
    /\ \A j \in 1..LstEvaluated(t) : LstFired(t, j) = LstMatches(j, t.raw)
    /\ \A e \in 1..Len(t.lstLog) :
         /\ t.lstLog[e].idx <= LstEvaluated(t)
         /\ t.lstLog[e].msg.Message = t.raw

\* A bot-addressed message that was stripped and reached the listener pass,
\* where a listener fired whose expression matches the raw text but not the
\* derived text.
C6_Witness ==
  \E k \in TaskIds :
    /\ tasks[k].bot = "yes" /\ tasks[k].cret = "false"
    /\ tasks[k].msg.text # tasks[k].raw
    /\ \E e \in 1..Len(tasks[k].lstLog) :
         /\ LstMatches(tasks[k].lstLog[e].idx, tasks[k].raw)
         /\ ~LstMatches(tasks[k].lstLog[e].idx, tasks[k].msg.text)

\* C7, as claimed: for any registry the listener pass runs to its return,
\* having started, once each and in registration order, exactly the
\* listeners whose expression matches, and returns true iff one matched.
C7_AsClaimed ==
  \A k \in TaskIds :
    LET t == tasks[k] IN
    /\ t.pc # "panic"
    /\ \A j \in 1..LstEvaluated(t) :
         LstCount(t, j) = IF LstMatches(j, t.raw) THEN 1 ELSE 0
    /\ \A e1, e2 \in 1..Len(t.lstLog) : e1 < e2 => t.lstLog[e1].idx < t.lstLog[e2].idx
    /\ t.lret # "none" => (t.lret = "true") = (t.lstLog # <<>>)

\* The tasks started for the f-th frame that arrived.
TasksOf(f) == {k \in TaskIds : tasks[k].frame = f}

\* C8: whatever the tasks started so far are doing, the receive loop is at
\* its receive and takes the next frame the open connection delivers.
C8_LoopNeverBlocked ==
  /\ listen = "receive"
  /\ (~closed /\ Len(frames) < MaxFrames) => ENABLED Receive

\* The second message has its own task, which is done, while the task of
\* the first message has not taken a step.
C8_Witness ==
  /\ Len(tasks) = 2
  /\ tasks[1].pc = "process"
  /\ tasks[2].pc = "done" /\ tasks[2].frame = 2

\* C9: a frame that fails to decode starts no task, sends nothing and does
\* not end the loop; every frame that decodes has exactly one task.
C9_MalformedSkipped ==
  /\ listen = "receive"
  /\ \A f \in 1..Len(frames) :
       Cardinality(TasksOf(f)) = IF frames[f].err = "nil" THEN 1 ELSE 0
  /\ \A k \in TaskIds : tasks[k].frame \in 1..Len(frames)
  /\ \A o \in 1..Len(outbox) :
       outbox[o].task \in TaskIds /\ frames[tasks[outbox[o].task].frame].err = "nil"

\* A malformed frame, then a well-formed one whose task is done.
C9_Witness ==
  /\ Len(frames) = 2
  /\ frames[1].err # "nil"
  /\ frames[2].err = "nil"
  /\ Len(tasks) = 1 /\ tasks[1].frame = 2 /\ tasks[1].pc = "done"

\* C10, as claimed: once the connection has terminated, Listen eventually
\* returns.
C10_AsClaimed == closed ~> (listen = "returned")

\* C11: when the negotiation response carries ok = false with error E, the
\* bootstrap returns no bot, its error is exactly E, and the websocket is
\* never dialled; a dial happens only after a response with ok = true.
C11_SlackErrorFailsBootstrap ==
  /\ (boot.pc = "returned" /\ boot.body.json /\ ~boot.body.ok) =>
       /\ boot.err = boot.body.error
       /\ boot.ret = NoBot
       /\ boot.dials = 0
       /\ boot.socket = ""
  /\ (boot.dials > 0 \/ boot.pc = "dial") => (boot.body.json /\ boot.body.ok)

C11_Witness ==
  /\ boot.pc = "returned"
  /\ boot.body.json /\ ~boot.body.ok
  /\ boot.body.error = "invalid_auth"
  /\ boot.err = "invalid_auth"

\* C12: a help request gets one reply; it lists every command registered
\* when it is sent, one line each in registration order, the pattern
\* followed by the description exactly when the description is not empty;
\* it starts with a mention of the sender exactly when the message did not
\* come from a direct channel, and goes to the channel of the message.
C12_ReplyContent ==
  /\ \A k \in TaskIds : Cardinality(Replies(k)) <= 1
  /\ \A k \in TaskIds : (tasks[k].help /\ tasks[k].pc = "done") => Cardinality(Replies(k)) = 1
  /\ \A n \in 1..Len(outbox) :
       LET o == outbox[n]
           fr == frames[tasks[o.task].frame]
       IN /\ tasks[o.task].help
          /\ Len(o.text.lines) <= Len(Commands)
          /\ \A j \in 1..Len(o.text.lines) :
               /\ o.text.lines[j].code = Commands[j].pattern
               /\ o.text.lines[j].rest =
                    IF Commands[j].description = "" THEN <<>>
                    ELSE <<" *-* ", Commands[j].description>>
          /\ o.text.mention = IF fr.channel = "D1" THEN "" ELSE Sender
          /\ o.channel = fr.channel
          /\ o.user = Sender

C12_AllCommandsListed ==
  Len(outbox') > Len(outbox) =>
    Len(outbox'[Len(outbox')].text.lines) = Len(Commands)

C12_HelpReply == []C12_ReplyContent /\ [][C12_AllCommandsListed]_vars

C12_Witness ==
  \E a, b \in 1..Len(outbox) :
    /\ outbox[a].text.mention = Sender
    /\ outbox[b].text.mention = ""
    /\ Len(outbox[b].text.lines) = 2
    /\ outbox[b].text.lines[1].rest = <<>>
    /\ outbox[b].text.lines[2].rest # <<>>

\* C13: registration may run while passes are in flight: a pass never reads
\* outside the registry, and when it returns it has evaluated, once each and
\* in order, every entry that was registered before it began.
C13_AsClaimed ==
  \A k \in TaskIds :
    LET t == tasks[k] IN
    /\ ~t.wild
    /\ t.cret # "none" =>
         /\ t.cmdSeen >= t.cmdBegin
         /\ t.cmdLog = CmdMatches(t.cmdSeen, t.msg.text)
    /\ t.lret # "none" =>
         /\ t.lstSeen >= t.lstBegin
         /\ \A j \in 1..t.lstSeen : LstCount(t, j) = IF LstMatches(j, ListenerSubject(t.msg)) THEN 1 ELSE 0

\* C14: the message a task gets is made from its own frame only: its text is
\* the text that frame carries, and empty when the frame carries none, also
\* after an earlier frame whose decoding failed part-way.
C14_AsClaimed ==
  \A k \in TaskIds :
    LET fr == frames[tasks[k].frame] IN
    tasks[k].raw = IF "text" \in fr.carries THEN fr.text ELSE <<>>

\* C15: the registries are append-only.  A step that changes a registry is a
\* registration call: it puts exactly one entry at the end of that registry
\* and leaves the other registry and every task alone; no step of the
\* receive loop or of a task changes a registry.  Hence what a registry held
\* at any time is a prefix of what it holds later.
C15_Step ==
  /\ Commands' # Commands =>
       /\ Len(Commands') = Len(Commands) + 1
       /\ SubSeq(Commands', 1, Len(Commands)) = Commands
       /\ UNCHANGED <<Listeners, tasks, outbox, frames, msg, handlers>>
  /\ Listeners' # Listeners =>
       /\ Len(Listeners') = Len(Listeners) + 1
       /\ SubSeq(Listeners', 1, Len(Listeners)) = Listeners
       /\ UNCHANGED <<Commands, tasks, outbox, frames, msg, handlers>>

C15_AppendOnly == [][C15_Step]_vars

\* Both registries were filled one entry at a time around a message whose
\* command pass and listener pass have run.
C15_Witness ==
  /\ Len(Commands) = 2 /\ Commands[1] # Commands[2]
  /\ Len(Listeners) = 2
  /\ \E k \in TaskIds :
       tasks[k].pc = "done" /\ tasks[k].cmdRuns = 1 /\ tasks[k].lstRuns = 1

\* C16: on a bot-addressed message the mention, then the link markup, then
\* the prefix are stripped, once each and in that order, before the help
\* check and the command pass; on any other message nothing is stripped.
C16_Normalisation ==
  \A k \in TaskIds :
    LET t == tasks[k]
        m0 == [t.msg EXCEPT !.text = t.raw]
    IN /\ (t.bot = "yes" /\ t.pc # "strip") =>
            /\ t.steps = <<"StripMention", "StripLinkMarkup", "StripPrefix">>
            /\ \E p \in Prefixes :
                 t.msg = StripPrefix(StripLinkMarkup(StripMention(m0, BotID)), p)
       /\ (t.bot # "yes" \/ t.pc = "strip") =>
            /\ t.steps = <<>>
            /\ t.msg.text = t.raw
            /\ ~t.help /\ t.sent = 0 /\ t.cmdRuns = 0

\* The mention and the prefix of "@U1 ! help" are both gone: that takes the
\* mention to be stripped before the prefix.
C16_Witness ==
  \E k \in TaskIds :
    /\ tasks[k].raw = <<"@U1", "!", "help">>
    /\ tasks[k].msg.text = <<"help">>
    /\ tasks[k].help

\* The handlers of task k that were started and have not returned.
Running(k) == {h \in handlers : h.task = k}

\* C17: a matched handler runs as a task of its own; the pass that started
\* it does not wait for it: whatever handlers are still running, a pass in
\* progress can take its next turn (so a pass over n entries ends after n
\* turns even if no handler ever returns), and a finished pass has started
\* one handler per match.
C17_HandlersDetached ==
  \A k \in TaskIds :
    LET t == tasks[k] IN
    /\ t.pc = "searchCommand" => ENABLED SearchCommand(k)
    /\ t.pc = "searchListener" => ENABLED SearchListener(k)
    /\ Cardinality(Running(k)) <= Len(t.cmdLog) + Len(t.lstLog)
    /\ \A h \in Running(k) :
         IF h.kind = "command" THEN \E e \in 1..Len(t.cmdLog) : t.cmdLog[e].idx = h.idx
         ELSE LstFired(t, h.idx)

\* The listener pass of a message is over, and the two handlers it started
\* are both still running, next to a handler of another message.
C17_Witness ==
  \E k \in TaskIds :
    /\ tasks[k].pc = "done" /\ tasks[k].lret = "true"
    /\ Cardinality({h \in Running(k) : h.kind = "listener"}) = 2
    /\ \E j \in TaskIds \ {k} : Running(j) # {}

\* C18: the message of a task is its own: no turn of the receive loop (the
\* decoding of a later frame into the buffer, the reset of the buffer)
\* changes a task that exists, and the raw text, sender and channel of a
\* task's message never change at all.
C18_Step ==
  \A k \in 1..Len(tasks) :
    /\ (frames' # frames \/ msg' # msg) => tasks'[k] = tasks[k]
    /\ tasks'[k].raw = tasks[k].raw
    /\ tasks'[k].msg.Message = tasks[k].msg.Message
    /\ tasks'[k].msg.user = tasks[k].msg.user
    /\ tasks'[k].msg.channel = tasks[k].msg.channel

C18_Isolated == [][C18_Step]_vars

\* The first task is still at work on its message while the loop has
\* decoded a second frame with another text and reset its buffer.
C18_Witness ==
  /\ Len(frames) = 2 /\ Len(tasks) = 2
  /\ tasks[1].pc \notin Final
  /\ tasks[1].raw = frames[1].text /\ tasks[1].raw # <<>>
  /\ tasks[2].raw = frames[2].text /\ tasks[2].raw # tasks[1].raw
  /\ msg = EmptyMsg

\* C19: the listener pass ends without a fault whatever the registry holds:
\* a listener whose regex does not compile counts as not matching, its
\* handler is not started, and the pass goes on to the listeners after it.
C19_AsClaimed ==
  \A k \in TaskIds :
    LET t == tasks[k] IN
    /\ t.pc # "panic"
    /\ \A e \in 1..Len(t.lstLog) : Compile(Listeners[t.lstLog[e].idx].regex).valid
    /\ t.lret # "none" =>
         \A j \in 1..t.lstSeen : LstFired(t, j) = LstMatches(j, ListenerSubject(t.msg))

\* C20: one prefix per message: when a message was classified as addressed
\* to the bot by its prefix, the prefix stripped from it is that same
\* prefix, also when SetPrefix is called while the message is processed.
C20_AsClaimed ==
  \A k \in TaskIds :
    LET t == tasks[k] IN
    (t.byPrefix # "none" /\ t.steps # <<>>) =>
      /\ t.stripPrefix = t.byPrefix
      /\ t.msg.text = Tail(t.raw)

====
